---- MODULE Spec2Model ----
(***************************************************************************)
(* Verification model of the waypipe server-side session supervisor        *)
(* (src/src/server.c) and of the fd mirroring round trip exercised by      *)
(* src/test/fd_mirror.c.                                                   *)
(*                                                                         *)
(* Byte strings are sequences of small integers; 0 is the NUL byte.        *)
(* A connection token is [header, key]: the header is the set of the       *)
(* bit fields that are set in the 32-bit word (bitwise OR is set union),   *)
(* the key is the sequence of its three 32-bit words.                      *)
(***************************************************************************)
EXTENDS Integers, Sequences, FiniteSets, TLC

\* ------------------------------------------------------------- bounds
\* application connections the display socket receives in one run
MaxConns == 2
\* writes made to the control FIFO in one run
MaxCtl == 2
\* the random source yields MaxRand + 1 different keys
MaxRand == 1
\* system calls that fail in one run
MaxFaults == 1
\* size in bytes of the mirrored file (test_size in the test program)
FileSize == 3
\* largest thread count of a pool (5 in the test program)
MaxThreads == 2
\* passes of one test_mirror run (5 in the test program)
NumPasses == 3
\* scaled stand-in for sizeof(sockaddr_un.sun_path)
SunPathSize == 3
\* scaled stand-in for sizeof(path) in read_sockaddr
PathBufSize == 6
\* scaled stand-in for the 254 bytes from which $SHELL is refused
ShellLimit == 4
\* longest value of $SHELL
MaxShellLen == 5

NUL == 0

VARIABLES
    mode,             \* "oneshot" or "multi" (run_server's oneshot argument)
    has_control,      \* control_pipe != -1 (before set-up: control_path given)
    unlink_at_end,    \* run_server's unlink_at_end argument
    pc,               \* position of the supervisor process
    retcode,          \* retcode of the session loop
    shutdown_flag,    \* the process-global flag, one copy per process
    fifo,             \* bytes waiting in the control FIFO
    nctl,             \* writes made to the control FIFO so far
    pending,          \* connections waiting on the display socket
    nacc,             \* connections accepted so far (also the session id)
    current_sockaddr, \* endpoint used for new channels
    token,            \* the supervisor's token variable
    connmap,          \* the connection table, a sequence of conn_addr
    chans,            \* channel sockets opened in the loop iteration under way
    workers,          \* per session: the worker and the channel it is on
    unlinked,         \* socket paths unlinked so far
    app,              \* the root application: state and exit status
    reco,             \* the oneshot reconnection controller process
    hangup,           \* oneshot: the worker's end of the link is closed
    ctl_last,         \* what the control FIFO read of this iteration came to
    ctl_seen,         \* the refusals among the control FIFO reads so far
    nfault,           \* system calls that have failed so far
    fds,              \* the supervisor's open fds, and the fds closed twice
    files             \* the paths the supervisor created that still exist

svars == <<mode, has_control, unlink_at_end, pc, retcode, shutdown_flag, fifo,
          nctl, pending, nacc, current_sockaddr, token, connmap, chans,
          workers, unlinked, app, reco, hangup, ctl_last, ctl_seen, nfault,
          fds, files>>

\* the mirroring test (test/fd_mirror.c)
VARIABLES
    tpc,              \* position of the test's main thread
    iter,             \* test_mirror's loop counter i
    ndiff,            \* what the update function returned for this pass
    src_map,          \* the source side's shadows, indexed by remote id
    dst_map,          \* the sink side's shadows, indexed by remote id
    src_pool,         \* the source side's thread pool
    dst_pool,         \* the sink side's thread pool
    transfer_data,    \* the blocks produced in this pass, in buffer order
    start,            \* blocks of this pass applied so far
    pass,             \* test_mirror's result so far
    synced            \* contents when the previous pass completed

mvars == <<tpc, iter, ndiff, src_map, dst_map, src_pool, dst_pool,
           transfer_data, start, pass, synced>>

\* the forked child that runs the default shell (run_server, lines 569-578)
VARIABLES
    shpc,             \* "call" before setup_login_shell_command, then "done"
    shell_env,        \* getenv("SHELL"): set is FALSE for NULL
    login_shell,      \* the login_shell argument
    shell,            \* the shell buffer: the path given to execvp
    shellname         \* the shellname buffer: argv[0] of the shell

shvars == <<shpc, shell_env, login_shell, shell, shellname>>

vars == <<svars, mvars, shvars>>

\* the system calls of a step may fail while the run's budget lasts
MayFail == nfault < MaxFaults

ReadResults == {"ok"} \cup (IF MayFail THEN {"err"} ELSE {})

EXIT_SUCCESS == 0
EXIT_FAILURE == 1

\* ------------------------------------------------------------- tokens
conntoken_header(reconnectable, update) ==
    {"VERSION", "FIXED"}
        \cup (IF update THEN {"UPDATE"} ELSE {})
        \cup (IF reconnectable THEN {"RECONNECTABLE"} ELSE {})

\* memset(&token, 0, sizeof(token))
ZeroToken == [header |-> {}, key |-> <<0, 0, 0>>]

NoToken == [header |-> {}, key |-> <<>>]

\* The keys the random source can yield: whatever was in the key before is
\* overwritten by the bytes read from /dev/urandom, or mixed with the pid
\* and the clock, so every value is possible whatever the old key was.
RandomKeys == {<<3 * r + 1, 3 * r + 2, 3 * r + 3>> : r \in 0..MaxRand}

fill_random_key(tok, rnd) == [tok EXCEPT !.key = rnd]

\* flagged_token.header |= CONN_UPDATE_BIT
FlagUpdate(tok) == [tok EXCEPT !.header = @ \cup {"UPDATE"}]

\* ------------------------------------------------------- control FIFO
Min(a, b) == IF a < b THEN a ELSE b

\* strlen of a NUL-terminated buffer
Strlen(buf) ==
    IF \E i \in 1..Len(buf) : buf[i] = NUL
    THEN (CHOOSE i \in 1..Len(buf) :
              buf[i] = NUL /\ \A j \in 1..(i - 1) : buf[j] # NUL) - 1
    ELSE Len(buf)

\* read_sockaddr on a readable FIFO: one read of at most sizeof(path) - 1
\* bytes, terminated, measured with strlen, refused when it does not fit
\* sun_path.  rest is what stays in the FIFO.
\* rd = "err" is a read that returns -1 and takes nothing.
read_sockaddr(bytes, rd) ==
    LET amt  == Min(Len(bytes), PathBufSize - 1)
        path == SubSeq(bytes, 1, amt) \o <<NUL>>
        len  == Strlen(path)
    IN  IF rd = "err"
        THEN [ret |-> -1, why |-> "readerr", sun_path |-> <<>>, rest |-> bytes]
        ELSE IF len >= SunPathSize
        THEN [ret |-> -1, why |-> "toolong", sun_path |-> <<>>,
              rest |-> SubSeq(bytes, amt + 1, Len(bytes))]
        ELSE [ret |-> 0, why |-> "valid", sun_path |-> SubSeq(path, 1, len),
              rest |-> SubSeq(bytes, amt + 1, Len(bytes))]

\* What the control FIFO holds when it is found readable: the bytes of the
\* writes made since it was last read.
PathA == <<1>>
PathB == <<2>>

\* The socket paths at which a waypipe client listens: connect_to_socket
\* to any other path fails.
Listening == {PathA, PathB}

CtlInputs ==
    { PathA \o <<NUL>>,                                \* a valid path
      PathB \o <<NUL>>,                                \* another valid path
      PathA \o <<10>>,                                 \* newline-terminated
      PathA \o <<NUL>> \o PathB \o <<NUL>>,            \* two writes
      [i \in 1..SunPathSize |-> 1] \o <<NUL>>,         \* too long for sun_path
      [i \in 1..(PathBufSize + 1) |-> 1] }             \* longer than one read


\* ------------------------------------------------------ channel sockets
\* The working state of the supervisor while one loop iteration runs.
SupState ==
    [fifo |-> fifo, pending |-> pending, nacc |-> nacc,
     current_sockaddr |-> current_sockaddr, token |-> token,
     connmap |-> connmap, chans |-> chans, workers |-> workers,
     unlinked |-> unlinked, retcode |-> retcode, brk |-> FALSE,
     fds |-> fds]

\* An fd is named by the variable that holds it and, for the fds of a
\* session, by the session.
Fd(name, n) == <<name, n>>

NoFds == [open |-> {}, twice |-> {}]

\* a system call returned a new fd to the supervisor process
FdOpen(s, fd) == [s EXCEPT !.fds.open = @ \cup {fd}]

\* checked_close(fd) in the supervisor process
checked_close(s, fd) ==
    [s EXCEPT !.fds.open = @ \ {fd},
              !.fds.twice = IF fd \in s.fds.open THEN @
                            ELSE @ \cup {<<"supervisor", fd>>}]

RECURSIVE close_all(_, _)
close_all(s, fdseq) ==
    IF fdseq = <<>> THEN s
    ELSE close_all(checked_close(s, Head(fdseq)), Tail(fdseq))

\* the checked_close calls a forked child makes on the fds it inherited:
\* the ones that hit an fd the child does not hold open
RECURSIVE ChildTwice(_, _, _)
ChildTwice(proc, inherited, fdseq) ==
    IF fdseq = <<>> THEN {}
    ELSE (IF Head(fdseq) \in inherited THEN {} ELSE {<<proc, Head(fdseq)>>})
           \cup ChildTwice(proc, inherited \ {Head(fdseq)}, Tail(fdseq))

\* a forked child runs its set-up code
ChildCloses(s, proc, extra, fdseq) ==
    [s EXCEPT !.fds.twice =
        @ \cup ChildTwice(proc, s.fds.open \cup extra, fdseq)]

\* the fds a forked child still holds when its set-up code has run
ChildHolds(s, extra, fdseq) ==
    (s.fds.open \cup extra) \ {fdseq[i] : i \in DOMAIN fdseq}

\* connect_to_socket succeeded: a new channel socket to endpoint ep, opened
\* by function by for session sess, held by the process that connected.
OpenChan(s, by, ep, sess) ==
    [s EXCEPT !.chans = Append(@, [by |-> by, ep |-> ep, sess |-> sess,
                                   tok |-> NoToken, wr |-> "none",
                                   open |-> TRUE, handed |-> "no",
                                   link |-> 0])]

\* write(chanfd, &token, sizeof(token)) with result res: "full" (16 bytes),
\* "short" (fewer) or "fail" (-1).
WriteToken(s, c, tok, res) ==
    [s EXCEPT !.chans[c].tok = tok, !.chans[c].wr = res]

\* checked_close(chanfd) in the process that opened the channel
CloseChan(s, c) ==
    [s EXCEPT !.chans[c].open = FALSE,
              !.fds.twice = IF s.chans[c].open THEN @
                            ELSE @ \cup {<<s.chans[c].by, Fd("chanfd", c)>>}]

\* send_one_fd(linkfd, chanfd) succeeded: the worker at the other end of
\* linkfd receives the channel and moves to it.
send_one_fd(s, linkfd, c) ==
    [s EXCEPT !.chans[c].handed = "link", !.chans[c].link = linkfd,
              !.workers[linkfd].ep = s.chans[c].ep]

\* main_interface_loop(chanfd, ...) is entered with the fd
PassToLoop(s, c) == [s EXCEPT !.chans[c].handed = "loop"]

NoWorker == [st |-> "none", first |-> NoToken, ep |-> <<>>, held |-> {}]

\* the process that runs main_interface_loop on channel c
NewWorker(s, c, held) ==
    [st |-> "run", first |-> s.chans[c].tok, ep |-> s.chans[c].ep,
     held |-> held]

\* --------------------------------------------------- update_connections
\* How a migration goes: fail = 0 when nothing fails, else the record (from
\* 1) at which kind fails: "connect", "wfail", "wshort" or "send".
NoFailure == [fail |-> 0, kind |-> "none"]

UpdateOutcomes(n, new_sockaddr) ==
    IF n = 0 THEN {NoFailure}
    ELSE IF new_sockaddr \notin Listening
    THEN {[fail |-> 1, kind |-> "connect"]}
    ELSE {NoFailure}
           \cup (IF MayFail
                 THEN {[fail |-> i, kind |-> k] :
                          i \in 1..n,
                          k \in {"connect", "wfail", "wshort", "send"}}
                 ELSE {})

\* faulty variant: the table keeps a pointer to the supervisor's token variable
RecordTokenAliased(s, i) == s.token

\* struct connection_token flagged_token = connmap->data[i].token
RecordToken(s, i) == s.connmap[i].token

\* faulty variant: every fd goes to the first record's link
RecordLinkFirst(s, i) == s.connmap[1].linkfd

\* the fd send_one_fd is given for record i
RecordLink(s, i) == s.connmap[i].linkfd

\* what write(chanfd, &token, sizeof(token)) returns under outcome kind
WriteResult(kind) ==
    IF kind = "wfail" THEN "fail" ELSE IF kind = "wshort" THEN "short"
    ELSE "full"

\* faulty variant: only a return value of -1 is taken for a failure
WriteCompleteUnlessError(res) == res # "fail"

\* write(...) != sizeof(token) is the failure test
WriteComplete(res) == res = "full"

RECURSIVE update_loop(_, _, _, _)
update_loop(s, i, new_sockaddr, out) ==
    IF i > Len(s.connmap) THEN [st |-> s, ret |-> 0]
    ELSE IF out.fail = i /\ out.kind = "connect" THEN [st |-> s, ret |-> -1]
    ELSE
      LET s1 == OpenChan(s, "update_connections", new_sockaddr,
                         s.connmap[i].pid)
          chanfd == Len(s1.chans)
          flagged_token == FlagUpdate(RecordToken(s, i))
      IN  IF out.fail = i /\ ~WriteComplete(WriteResult(out.kind))
          THEN [st |-> CloseChan(WriteToken(s1, chanfd, flagged_token,
                                            WriteResult(out.kind)), chanfd),
                ret |-> -1]
          ELSE
            LET s2 == WriteToken(s1, chanfd, flagged_token,
                                 IF out.fail = i THEN WriteResult(out.kind)
                                 ELSE "full")
            IN  IF out.fail = i /\ out.kind = "send"
                THEN [st |-> CloseChan(s2, chanfd), ret |-> -1]
                ELSE update_loop(
                         CloseChan(send_one_fd(s2, RecordLink(s, i), chanfd),
                                   chanfd),
                         i + 1, new_sockaddr, out)

\* faulty variant: the old path is unlinked but the new socket is not stored
AdoptSockaddrUnlinkOnly(s, new_sockaddr) ==
    [s EXCEPT !.unlinked = IF unlink_at_end
                              /\ s.current_sockaddr # new_sockaddr
                           THEN @ \cup {s.current_sockaddr} ELSE @]

\* If switching connections succeeded, adopt the new socket
AdoptSockaddr(s, new_sockaddr) ==
    [s EXCEPT !.unlinked = IF unlink_at_end
                              /\ s.current_sockaddr # new_sockaddr
                           THEN @ \cup {s.current_sockaddr} ELSE @,
              !.current_sockaddr = new_sockaddr]

\* faulty variant: the new socket is adopted whether or not switching succeeded
update_connections_always_adopt(s, new_sockaddr, out) ==
    LET r == update_loop(s, 1, new_sockaddr, out)
    IN  [st |-> AdoptSockaddr(r.st, new_sockaddr), ret |-> r.ret]

update_connections(s, new_sockaddr, out) ==
    LET r == update_loop(s, 1, new_sockaddr, out)
    IN  IF r.ret = -1 THEN r
        ELSE [st |-> AdoptSockaddr(r.st, new_sockaddr), ret |-> 0]

\* ----------------------------------------- handle_new_server_connection
SetupOutcomes(sockaddr) ==
    (IF sockaddr \in Listening THEN {"ok"} ELSE {"connect"})
        \cup (IF MayFail /\ has_control THEN {"alloc"} ELSE {})
        \cup (IF MayFail /\ sockaddr \in Listening
              THEN {"connect", "wfail", "wshort", "fork"}
                     \cup (IF has_control THEN {"socketpair"} ELSE {})
              ELSE {})

\* faulty variant: the count is not advanced, so the record replaces the last one
AddRecordNoIncrement(s, new_token, npid, linkfd) ==
    LET rec == [token |-> new_token, pid |-> npid, linkfd |-> linkfd]
    IN  [s EXCEPT !.connmap = IF @ = <<>> THEN <<rec>>
                              ELSE [@ EXCEPT ![Len(@)] = rec]]

\* connmap->data[connmap->count++] = (struct conn_addr){...}
AddRecord(s, new_token, npid, linkfd) ==
    [s EXCEPT !.connmap = Append(@, [token |-> new_token, pid |-> npid,
                                     linkfd |-> linkfd])]

RECURSIVE TableLinks(_)
TableLinks(cm) ==
    IF cm = <<>> THEN <<>>
    ELSE <<Fd("linkfd", cm[1].linkfd)>> \o TableLinks(Tail(cm))

\* faulty variant: the record is in the table before the fork, so the worker closes linksocks[0] again with the table's fds
WorkerSetupClosesAfterRecord(s, linksocks0) ==
    <<Fd("wdisplay_socket", 0)>>
        \o (IF has_control THEN <<Fd("control_pipe", 0), linksocks0>>
            ELSE <<>>)
        \o TableLinks(s.connmap)
        \o (IF has_control THEN <<linksocks0>> ELSE <<>>)

\* faulty variant: the worker leaves the link fds of the table open
WorkerSetupClosesOwnOnly(s, linksocks0) ==
    <<Fd("wdisplay_socket", 0)>>
        \o (IF has_control THEN <<Fd("control_pipe", 0), linksocks0>>
            ELSE <<>>)

\* lines 263-272: the fds the forked worker closes before it enters
\* main_interface_loop
WorkerSetupCloses(s, linksocks0) ==
    <<Fd("wdisplay_socket", 0)>>
        \o (IF has_control THEN <<Fd("control_pipe", 0), linksocks0>>
            ELSE <<>>)
        \o TableLinks(s.connmap)

\* sess is the session the accepted appfd belongs to; it names the worker's
\* pid and its link pair as well.
handle_new_server_connection(s, sess, new_token, out) ==
    LET reconnectable == has_control
        appfd == Fd("appfd", sess)
        linksocks0 == Fd("linkfd", sess)
        linksocks1 == Fd("linksocks1", sess)
        failed(x) == [st |-> [checked_close(x, appfd) EXCEPT
                                !.workers = Append(@, NoWorker)],
                      ret |-> -1]
    IN  IF out \in {"alloc", "connect"} THEN failed(s)
        ELSE
          LET s1 == OpenChan(s, "handle_new_server_connection",
                             s.current_sockaddr, sess)
              chanfd == Len(s1.chans)
          IN  IF ~WriteComplete(WriteResult(out))
              THEN failed(CloseChan(
                       WriteToken(s1, chanfd, new_token, WriteResult(out)),
                       chanfd))
              ELSE
                LET s2 == WriteToken(s1, chanfd, new_token, WriteResult(out))
                    sl == IF reconnectable
                          THEN FdOpen(FdOpen(s2, linksocks0), linksocks1)
                          ELSE s2
                IN  IF out = "socketpair" THEN failed(CloseChan(s2, chanfd))
                    ELSE IF out = "fork"
                    THEN failed(CloseChan(
                             IF reconnectable
                             THEN close_all(sl, <<linksocks0, linksocks1>>)
                             ELSE sl, chanfd))
                    ELSE
                      LET sc == ChildCloses(sl, "worker",
                                    {Fd("chanfd", chanfd)},
                                    WorkerSetupCloses(sl, linksocks0))
                          s3 == checked_close(
                                    CloseChan(PassToLoop(sc, chanfd), chanfd),
                                    appfd)
                          s4 == [s3 EXCEPT
                                   !.workers = Append(@, NewWorker(s3, chanfd,
                                       ChildHolds(sl, {Fd("chanfd", chanfd)},
                                           WorkerSetupCloses(sl,
                                                             linksocks0))))]
                      IN  [st |-> IF reconnectable
                                  THEN AddRecord(
                                           checked_close(s4, linksocks1),
                                           new_token, sess, sess)
                                  ELSE s4,
                           ret |-> 0]

\* ------------------------------------------------------ run_multi_server
\* The result of a control FIFO read: "readerr", "toolong", "ok" (every
\* step of the reconnection succeeded) or "fail" (one failed).
CtlEntry(res, fail, kind) == res

\* the results that ctl_seen keeps
Refusals == {"toolong", "fail"}

\* faulty variant: a failed read_sockaddr ends the loop, as it does in the oneshot
\* reconnection controller
multi_control_input_fatal(s, rd, uo) ==
    LET r  == read_sockaddr(s.fifo, rd)
        s1 == [s EXCEPT !.fifo = r.rest]
    IN  IF r.ret = -1 THEN [s1 EXCEPT !.retcode = EXIT_FAILURE, !.brk = TRUE]
        ELSE update_connections(s1, r.sun_path, uo).st

\* lines 388-397: a readable control FIFO.  A failed read_sockaddr is
\* ignored; a path is given to update_connections, whose result is ignored.
multi_control_input(s, rd, uo) ==
    LET r  == read_sockaddr(s.fifo, rd)
        s1 == [s EXCEPT !.fifo = r.rest]
    IN  IF r.ret = -1 THEN s1
        ELSE update_connections(s1, r.sun_path, uo).st

\* what the read of the control FIFO came to
CtlResult(s, rd, uo) ==
    LET r == read_sockaddr(s.fifo, rd)
    IN  IF r.ret = -1 THEN CtlEntry(r.why, 0, "none")
        ELSE IF update_connections(s, r.sun_path, uo).ret = 0
        THEN CtlEntry("ok", 0, "none")
        ELSE CtlEntry("fail", uo.fail, uo.kind)

\* lines 399-423: a readable display socket
multi_display_input(s, acc, rnd, so) ==
    IF acc = "eagain" THEN [s EXCEPT !.pending = @ - 1]
    ELSE IF acc = "error"
    THEN [s EXCEPT !.retcode = EXIT_FAILURE, !.brk = TRUE]
    ELSE
      LET s1 == FdOpen([s EXCEPT !.pending = @ - 1, !.nacc = @ + 1,
                                 !.token = fill_random_key(@, rnd)],
                       Fd("appfd", s.nacc + 1))
          h  == handle_new_server_connection(s1, s1.nacc, s1.token, so)
      IN  IF h.ret = -1
          THEN [h.st EXCEPT !.retcode = EXIT_FAILURE, !.brk = TRUE]
          ELSE h.st

\* lines 425-437: leaving the loop
multi_cleanup(s) ==
    close_all([s EXCEPT !.unlinked = IF unlink_at_end
                                     THEN @ \cup {s.current_sockaddr}
                                     ELSE @],
              <<Fd("wdisplay_socket", 0)>>
                  \o (IF has_control THEN <<Fd("control_pipe", 0)>> ELSE <<>>)
                  \o TableLinks(s.connmap))

SetSup(s, nextpc) ==
    /\ fifo' = s.fifo
    /\ pending' = s.pending
    /\ nacc' = s.nacc
    /\ current_sockaddr' = s.current_sockaddr
    /\ token' = s.token
    /\ connmap' = s.connmap
    /\ chans' = s.chans
    /\ workers' = s.workers
    /\ unlinked' = s.unlinked
    /\ retcode' = s.retcode
    /\ fds' = s.fds
    /\ pc' = nextpc

\* wait_for_pid_and_clean(child_pid, &status, WNOHANG, &connmap): reaps the
\* children that have exited and drops their connection records.
Reaped(w) == [i \in 1..Len(w) |->
                 IF w[i].st = "exited" THEN [w[i] EXCEPT !.st = "reaped"]
                 ELSE w[i]]

Swept(cm, w) == SelectSeq(cm, LAMBDA r : w[r.pid].st # "exited")

\* the link fds of the records that the sweep drops are closed
SweepClose(s) ==
    close_all(s, TableLinks(SelectSeq(s.connmap,
                                LAMBDA r : s.workers[r.pid].st = "exited")))

\* lines 366-373: the loop condition and the sweep
MultiTop ==
    /\ mode = "multi" /\ pc = "top"
    /\ UNCHANGED <<mvars, shvars>>
    /\ UNCHANGED files
    /\ IF shutdown_flag.super
       THEN /\ SetSup(multi_cleanup([SupState EXCEPT !.chans = <<>>]),
                      "returned")
            /\ UNCHANGED app
       ELSE LET s == [SweepClose(SupState) EXCEPT
                        !.chans = <<>>,
                        !.workers = Reaped(workers),
                        !.connmap = Swept(connmap, workers)]
            IN  IF app.st = "exited"
                THEN /\ app' = [app EXCEPT !.st = "reaped"]
                     /\ SetSup(multi_cleanup([s EXCEPT !.retcode = app.status]),
                               "returned")
                ELSE /\ SetSup(s, "poll")
                     /\ UNCHANGED app
    /\ ctl_last' = "none"
    /\ UNCHANGED <<mode, has_control, unlink_at_end, shutdown_flag, nctl, reco,
                   hangup, ctl_seen, nfault>>

\* lines 375-384: poll fails with an error other than EINTR
MultiPollFail ==
    /\ mode = "multi" /\ pc = "poll"
    /\ UNCHANGED <<mvars, shvars>>
    /\ UNCHANGED files
    /\ MayFail
    /\ nfault' = nfault + 1
    /\ SetSup(multi_cleanup([SupState EXCEPT !.retcode = EXIT_FAILURE]),
              "returned")
    /\ UNCHANGED <<mode, has_control, unlink_at_end, shutdown_flag, nctl, app,
                   reco, hangup, ctl_last, ctl_seen>>

\* lines 375-423: poll returns with events; the control FIFO is handled
\* first, the display socket second.
MultiPollEvents ==
    /\ mode = "multi" /\ pc = "poll"
    /\ UNCHANGED <<mvars, shvars>>
    /\ UNCHANGED files
    /\ LET ctl  == has_control /\ fifo # <<>>
           disp == pending > 0
       IN  /\ ctl \/ disp
           /\ \E rd  \in (IF ctl THEN ReadResults ELSE {"none"}),
                 acc \in (IF disp
                          THEN {"ok"} \cup (IF MayFail THEN {"eagain", "error"}
                                            ELSE {})
                          ELSE {"none"}) :
               \E uo  \in (IF rd = "ok" /\ read_sockaddr(fifo, rd).ret = 0
                           THEN UpdateOutcomes(Len(connmap),
                                    read_sockaddr(fifo, rd).sun_path)
                           ELSE {NoFailure}),
                  rnd \in (IF acc = "ok" THEN RandomKeys ELSE {<<>>}) :
                \E so \in (IF acc = "ok"
                           THEN SetupOutcomes(
                                    (IF ctl
                                     THEN multi_control_input(SupState, rd, uo)
                                     ELSE SupState).current_sockaddr)
                           ELSE {"none"}) :
                 LET s1 == IF ctl THEN multi_control_input(SupState, rd, uo)
                           ELSE SupState
                     s2 == IF disp THEN multi_display_input(s1, acc, rnd, so)
                           ELSE s1
                     res == IF ctl THEN CtlResult(SupState, rd, uo)
                            ELSE "none"
                     nf == (IF rd = "err"
                                 \/ (uo.fail # 0
                                     /\ read_sockaddr(fifo, rd).sun_path
                                            \in Listening)
                            THEN 1 ELSE 0)
                           + (IF acc \in {"eagain", "error"}
                                 \/ (acc = "ok" /\ so # "ok"
                                     /\ ~(so = "connect"
                                          /\ s1.current_sockaddr
                                                 \notin Listening))
                              THEN 1 ELSE 0)
                 IN  /\ nfault + nf <= MaxFaults
                     /\ nfault' = nfault + nf
                     /\ IF s2.brk THEN SetSup(multi_cleanup(s2), "returned")
                        ELSE SetSup(s2, "top")
                     /\ ctl_last' = res
                     /\ ctl_seen' = ctl_seen \cup ({res} \cap Refusals)
    /\ UNCHANGED <<mode, has_control, unlink_at_end, shutdown_flag, nctl, app,
                   reco, hangup>>

\* ----------------------------------------------------- run_single_server
SingleOutcomes ==
    {"ok"} \cup (IF MayFail
                 THEN {"connect", "wfail", "wshort"}
                        \cup (IF has_control THEN {"socketpair", "fork"}
                              ELSE {})
                 ELSE {})

NoReco == [pc |-> "none", retcode |-> EXIT_SUCCESS, token |-> NoToken,
           closes |-> [control_pipe |-> 0, linkfd |-> 0]]

\* lines 198-207: the forked child.  Further uses of the token will be to
\* reconnect.
ForkReconnector(tok) == [NoReco EXCEPT !.pc = "top", !.token = FlagUpdate(tok)]

\* lines 164-215, up to the call of main_interface_loop.  res.run says
\* whether the worker loop was entered.
run_single_server(s, rnd, out) ==
    LET server_link == Fd("server_link", 0)
        linkfds0 == Fd("linkfds0", 0)
        linkfds1 == Fd("linkfds1", 0)
        failed(x) == [st |-> [checked_close(x, server_link) EXCEPT
                                !.retcode = EXIT_FAILURE],
                      run |-> FALSE]
    IN  IF out = "connect" THEN failed(s)
        ELSE
          LET reconnectable == has_control
              s1 == OpenChan(s, "run_single_server", s.current_sockaddr, 1)
              chanfd == Len(s1.chans)
              s2 == [s1 EXCEPT
                       !.unlinked = IF unlink_at_end
                                    THEN @ \cup {s.current_sockaddr} ELSE @,
                       !.token = [fill_random_key(ZeroToken, rnd) EXCEPT
                                    !.header = conntoken_header(reconnectable,
                                                                FALSE)]]
          IN  IF ~WriteComplete(WriteResult(out))
              THEN failed(CloseChan(
                       WriteToken(s2, chanfd, s2.token, WriteResult(out)),
                       chanfd))
              ELSE
                LET s3 == WriteToken(s2, chanfd, s2.token, WriteResult(out))
                    sl == IF reconnectable
                          THEN FdOpen(FdOpen(s3, linkfds0), linkfds1)
                          ELSE s3
                IN  IF out = "socketpair" THEN failed(CloseChan(s3, chanfd))
                    ELSE IF out = "fork"
                    THEN failed(CloseChan(
                             close_all(sl, <<linkfds0, linkfds1>>), chanfd))
                    ELSE
                      LET sc == IF reconnectable
                                THEN close_all(
                                         ChildCloses(sl, "reconnector",
                                             {Fd("chanfd", chanfd)},
                                             <<Fd("chanfd", chanfd), linkfds0,
                                               server_link>>),
                                         <<Fd("control_pipe", 0), linkfds1>>)
                                ELSE sl
                      IN  [st |-> [PassToLoop(sc, chanfd) EXCEPT
                                     !.nacc = 1,
                                     !.workers = <<NewWorker(sc, chanfd,
                                         ChildHolds(sc,
                                             {Fd("chanfd", chanfd)}, <<>>))>>],
                           run |-> TRUE]

SingleStart ==
    /\ mode = "oneshot" /\ pc = "start"
    /\ UNCHANGED <<mvars, shvars>>
    /\ UNCHANGED files
    /\ \E rnd \in RandomKeys, out \in SingleOutcomes :
           LET r == run_single_server(SupState, rnd, out)
           IN  /\ nfault' = IF out = "ok" THEN nfault ELSE nfault + 1
               /\ SetSup(r.st, IF r.run THEN "worker" ELSE "returned")
               /\ reco' = IF r.run /\ has_control
                          THEN ForkReconnector(r.st.token) ELSE reco
    /\ UNCHANGED <<mode, has_control, unlink_at_end, shutdown_flag, nctl, app,
                   hangup, ctl_last, ctl_seen>>

\* main_interface_loop returns and the process leaves run_single_server;
\* its end of the link pair is closed with it.
\* the fds main_interface_loop is given in oneshot mode besides chanfd; it
\* closes them before it returns
LoopFds == {Fd("server_link", 0), Fd("linkfds0", 0)}

SingleLoopReturns ==
    /\ mode = "oneshot" /\ pc = "worker"
    /\ UNCHANGED <<mvars, shvars>>
    /\ UNCHANGED files
    /\ \E rc \in {EXIT_SUCCESS, EXIT_FAILURE} :
           /\ retcode' = rc
           /\ pc' = "returned"
    /\ hangup' = has_control
    /\ workers' = [workers EXCEPT ![1].st = "exited"]
    /\ fds' = [fds EXCEPT !.open = @ \ LoopFds]
    /\ UNCHANGED <<mode, has_control, unlink_at_end, shutdown_flag, fifo, nctl,
                   pending, nacc, current_sockaddr, token, connmap, chans,
                   unlinked, app, reco, ctl_last, ctl_seen, nfault>>

\* ----------------------------------------- run_single_server_reconnector
RecoOutcomes(new_sockaddr) ==
    IF new_sockaddr \notin Listening THEN {"connect"}
    ELSE {"ok"} \cup (IF MayFail THEN {"connect", "wfail", "wshort", "send"}
                      ELSE {})

\* lines 155-157
reco_leave(r) ==
    [r EXCEPT !.pc = "done", !.closes.control_pipe = @ + 1,
              !.closes.linkfd = @ + 1]

\* faulty variant: a failed attempt ends the controller
reco_break(r) == reco_leave([r EXCEPT !.retcode = EXIT_FAILURE])

\* the continue statements of lines 136 and 145, and the end of the loop
\* body after line 152
reco_continue(r) == [r EXCEPT !.pc = "top"]

\* faulty variant: the control pipe is looked at before the link
reco_hangup_seen_last(pollhup, pollin) == pollhup /\ ~pollin

\* lines 119-122: whether the loop is left for a hangup, given the revents
\* of the link (POLLHUP) and of the control pipe (POLLIN)
reco_hangup_seen(pollhup, pollin) == pollhup

\* lines 123-153: POLLIN on the control pipe.  Gives the channel state and
\* the controller's.
reco_control_input(s, r, rd, out) ==
    LET a  == read_sockaddr(s.fifo, rd)
        s0 == [s EXCEPT !.fifo = a.rest]
        again == reco_continue(r)
    IN  IF a.ret = -1
        THEN [st |-> s0, reco |-> reco_leave([r EXCEPT !.retcode = EXIT_FAILURE])]
        ELSE IF out = "connect" THEN [st |-> s0, reco |-> again]
        ELSE
          LET s1 == OpenChan(s0, "run_single_server_reconnector",
                             a.sun_path, 1)
              new_conn == Len(s1.chans)
          IN  IF ~WriteComplete(WriteResult(out))
              THEN [st |-> CloseChan(
                              WriteToken(s1, new_conn, r.token,
                                         WriteResult(out)),
                              new_conn),
                    reco |-> again]
              ELSE
                LET s2 == WriteToken(s1, new_conn, r.token, WriteResult(out))
                IN  IF out = "send"
                    THEN [st |-> CloseChan(s2, new_conn), reco |-> again]
                    ELSE [st |-> CloseChan(send_one_fd(s2, 1, new_conn),
                                           new_conn),
                          reco |-> again]

RecoCtlResult(s, rd, out) ==
    LET a == read_sockaddr(s.fifo, rd)
    IN  IF a.ret = -1 THEN CtlEntry(a.why, 0, "none")
        ELSE IF out = "ok" THEN CtlEntry("ok", 0, "none")
        ELSE CtlEntry("fail", 1, out)

\* line 99: the loop condition
RecoTop ==
    /\ reco.pc = "top"
    /\ UNCHANGED <<mvars, shvars>>
    /\ UNCHANGED <<fds, files>>
    /\ reco' = IF shutdown_flag.reco THEN reco_leave(reco)
               ELSE [reco EXCEPT !.pc = "poll"]
    /\ ctl_last' = "none"
    /\ chans' = <<>>
    /\ UNCHANGED <<mode, has_control, unlink_at_end, pc, retcode, shutdown_flag,
                   fifo, nctl, pending, nacc, current_sockaddr, token, connmap,
                   workers, unlinked, app, hangup, ctl_seen, nfault>>

\* lines 108-113: poll fails with an error other than EINTR
RecoPollFail ==
    /\ reco.pc = "poll"
    /\ UNCHANGED <<mvars, shvars>>
    /\ UNCHANGED <<fds, files>>
    /\ MayFail
    /\ nfault' = nfault + 1
    /\ reco' = reco_leave([reco EXCEPT !.retcode = EXIT_FAILURE])
    /\ UNCHANGED <<mode, has_control, unlink_at_end, pc, retcode, shutdown_flag,
                   fifo, nctl, pending, nacc, current_sockaddr, token, connmap,
                   chans, workers, unlinked, app, hangup, ctl_last, ctl_seen>>

\* lines 119-153: poll returns with events; hangup of the link is looked at
\* first.
RecoPollEvents ==
    /\ reco.pc = "poll"
    /\ UNCHANGED <<mvars, shvars>>
    /\ UNCHANGED files
    /\ hangup \/ fifo # <<>>
    /\ IF reco_hangup_seen(hangup, fifo # <<>>)
       THEN /\ reco' = reco_leave(reco)
            /\ UNCHANGED <<fifo, chans, workers, ctl_last, ctl_seen, nfault,
                           fds>>
       ELSE \E rd \in ReadResults :
              \E out \in (IF read_sockaddr(fifo, rd).ret = 0
                          THEN RecoOutcomes(read_sockaddr(fifo, rd).sun_path)
                          ELSE {"none"}) :
                LET x   == reco_control_input(SupState, reco, rd, out)
                    res == RecoCtlResult(SupState, rd, out)
                IN  /\ reco' = x.reco
                    /\ fifo' = x.st.fifo
                    /\ chans' = x.st.chans
                    /\ workers' = x.st.workers
                    /\ fds' = x.st.fds
                    /\ nfault' = IF rd = "err"
                                    \/ (out \notin {"ok", "none"}
                                        /\ read_sockaddr(fifo, rd).sun_path
                                               \in Listening)
                                 THEN nfault + 1 ELSE nfault
                    /\ ctl_last' = res
                    /\ ctl_seen' = ctl_seen \cup ({res} \cap Refusals)
    /\ UNCHANGED <<mode, has_control, unlink_at_end, pc, retcode, shutdown_flag,
                   nctl, pending, nacc, current_sockaddr, token, connmap,
                   unlinked, app, hangup>>

\* ----------------------------------------------------------- run_server
\* How the set-up goes: "toolong" and "noxdg" are the display path checks
\* of multi mode, the others name the call that fails.
StartOutcomes ==
    {"ok", "fork"}
        \cup (IF mode = "multi" THEN {"toolong", "noxdg", "bind"}
              ELSE {"socketpair"})
        \cup (IF has_control THEN {"mkfifo", "open"} ELSE {})

\* lines 476-605: run_server up to the call of the session loop.  Gives the
\* supervisor's state, the files it has created, whether control_pipe is
\* an fd, and whether the session loop is entered.
run_server_setup(s, out) ==
    LET oneshot == mode = "oneshot"
        stop(x, f) == [st |-> [x EXCEPT !.retcode = EXIT_FAILURE],
                       files |-> f, control_pipe |-> FALSE, run |-> FALSE]
        s1 == IF oneshot
              THEN FdOpen(FdOpen(s, Fd("server_link", 0)),
                          Fd("wayland_socket", 0))
              ELSE FdOpen(s, Fd("wdisplay_socket", 0))
        f1 == IF oneshot THEN {} ELSE {"display_path"}
    IN  IF out \in {"toolong", "noxdg", "socketpair", "bind"}
        THEN stop(s, {})
        ELSE IF out = "fork" THEN stop(s1, {})
        ELSE
          LET sc == ChildCloses(s1, "application", {},
                        IF oneshot THEN <<Fd("server_link", 0)>>
                        ELSE <<Fd("wdisplay_socket", 0)>>)
              s2 == IF oneshot THEN checked_close(sc, Fd("wayland_socket", 0))
                    ELSE sc
              made == has_control /\ out # "mkfifo"
              opened == made /\ out # "open"
              s3 == IF opened THEN FdOpen(s2, Fd("control_pipe", 0)) ELSE s2
          IN  [st |-> [s3 EXCEPT
                         !.token = IF oneshot THEN @
                                   ELSE [ZeroToken EXCEPT !.header =
                                            conntoken_header(opened, FALSE)]],
               files |-> f1 \cup (IF made THEN {"control_path"} ELSE {}),
               control_pipe |-> opened, run |-> TRUE]

RunServerStart ==
    /\ pc = "init"
    /\ UNCHANGED <<mvars, shvars>>
    /\ \E out \in StartOutcomes :
           LET r == run_server_setup(SupState, out)
           IN  /\ SetSup(r.st, IF ~r.run THEN "exited"
                               ELSE IF mode = "oneshot" THEN "start"
                               ELSE "top")
               /\ files' = r.files
               /\ has_control' = r.control_pipe
               /\ app' = IF r.run THEN [app EXCEPT !.st = "running"] ELSE app
               /\ nfault' = IF out \in {"ok", "toolong", "noxdg"} THEN nfault
                            ELSE nfault + 1
    /\ UNCHANGED <<mode, unlink_at_end, shutdown_flag, nctl, reco, hangup,
                   ctl_last, ctl_seen>>

\* wait_for_pid_and_clean(&pid, &status, 0, NULL) returns once no child is
\* left
AllChildrenGone ==
    /\ app.st # "running"
    /\ \A w \in 1..Len(workers) : workers[w].st # "run"
    /\ reco.pc \in {"none", "done"}

\* faulty variant: the status of the session loop is returned whatever the wait found
run_server_status_of_loop(ret, found, status) == ret

\* lines 626-633: retcode = WEXITSTATUS(status) if the application was
\* reaped
run_server_status(ret, found, status) == IF found THEN status ELSE ret

\* lines 616-633: run_server after the session loop has returned
RunServerWait ==
    /\ pc = "returned"
    /\ UNCHANGED <<mvars, shvars>>
    /\ shutdown_flag.super \/ AllChildrenGone
    /\ LET found == app.st = "exited"
       IN  /\ retcode' = run_server_status(retcode, found, app.status)
           /\ app' = IF found THEN [app EXCEPT !.st = "reaped"] ELSE app
    /\ workers' = IF mode = "multi" THEN Reaped(workers) ELSE workers
    /\ files' = files \ ((IF has_control THEN {"control_path"} ELSE {})
                            \cup (IF mode = "multi" THEN {"display_path"}
                                  ELSE {}))
    /\ pc' = "exited"
    /\ UNCHANGED <<mode, has_control, unlink_at_end, shutdown_flag, fifo, nctl,
                   pending, nacc, current_sockaddr, token, connmap, chans,
                   unlinked, reco, hangup, ctl_last, ctl_seen, nfault, fds>>

\* ---------------------------------------------------------- environment
AppStatuses == {0, 3}

Running == IF mode = "multi" THEN pc \in {"top", "poll"}
           ELSE pc \in {"start", "worker"} \/ reco.pc \in {"top", "poll"}

\* the children outlive the session loop
Alive == Running \/ pc = "returned"

\* somebody writes a message to the control FIFO
ControlWrite ==
    /\ has_control /\ Running /\ nctl < MaxCtl /\ fifo = <<>>
    /\ UNCHANGED <<mvars, shvars>>
    /\ UNCHANGED <<fds, files>>
    /\ \E msg \in CtlInputs : fifo' = fifo \o msg
    /\ nctl' = nctl + 1
    /\ UNCHANGED <<mode, has_control, unlink_at_end, pc, retcode, shutdown_flag,
                   pending, nacc, current_sockaddr, token, connmap, chans,
                   workers, unlinked, app, reco, hangup, ctl_last, ctl_seen, nfault>>

\* an application connects to the display socket
AppConnect ==
    /\ mode = "multi" /\ Running /\ nacc + pending < MaxConns
    /\ UNCHANGED <<mvars, shvars>>
    /\ UNCHANGED <<fds, files>>
    /\ pending' = pending + 1
    /\ UNCHANGED <<mode, has_control, unlink_at_end, pc, retcode, shutdown_flag,
                   fifo, nctl, nacc, current_sockaddr, token, connmap, chans,
                   workers, unlinked, app, reco, hangup, ctl_last, ctl_seen, nfault>>

\* the root application exits
AppExit ==
    /\ Alive /\ app.st = "running"
    /\ UNCHANGED <<mvars, shvars>>
    /\ UNCHANGED <<fds, files>>
    /\ \E status \in AppStatuses : app' = [st |-> "exited", status |-> status]
    /\ UNCHANGED <<mode, has_control, unlink_at_end, pc, retcode, shutdown_flag,
                   fifo, nctl, pending, nacc, current_sockaddr, token, connmap,
                   chans, workers, unlinked, reco, hangup, ctl_last, ctl_seen, nfault>>

\* a forked worker exits
WorkerExit ==
    /\ mode = "multi" /\ Alive
    /\ UNCHANGED <<mvars, shvars>>
    /\ UNCHANGED <<fds, files>>
    /\ \E w \in 1..Len(workers) :
           /\ workers[w].st = "run"
           /\ workers' = [workers EXCEPT ![w].st = "exited"]
    /\ UNCHANGED <<mode, has_control, unlink_at_end, pc, retcode, shutdown_flag,
                   fifo, nctl, pending, nacc, current_sockaddr, token, connmap,
                   chans, unlinked, app, reco, hangup, ctl_last, ctl_seen, nfault>>

\* SIGINT sets the flag of the process it is delivered to.  A process that
\* is inside poll is interrupted (EINTR, and the loop is re-entered); one
\* that has tested the flag but not yet entered poll is not.
Sigint ==
    /\ Running
    /\ UNCHANGED <<mvars, shvars>>
    /\ UNCHANGED <<fds, files>>
    /\ \/ /\ ~shutdown_flag.super /\ pc \notin {"returned", "exited"}
          /\ shutdown_flag' = [shutdown_flag EXCEPT !.super = TRUE]
          /\ \E eintr \in BOOLEAN :
                 pc' = IF eintr /\ mode = "multi" /\ pc = "poll" THEN "top"
                       ELSE pc
          /\ UNCHANGED reco
       \/ /\ ~shutdown_flag.reco /\ reco.pc \in {"top", "poll"}
          /\ shutdown_flag' = [shutdown_flag EXCEPT !.reco = TRUE]
          /\ \E eintr \in BOOLEAN :
                 reco' = IF eintr /\ reco.pc = "poll"
                         THEN [reco EXCEPT !.pc = "top"] ELSE reco
          /\ UNCHANGED pc
    /\ UNCHANGED <<mode, has_control, unlink_at_end, retcode, fifo, nctl,
                   pending, nacc, current_sockaddr, token, connmap, chans,
                   workers, unlinked, app, hangup, ctl_last, ctl_seen, nfault>>

\* ------------------------------------------------- mirroring (fd_mirror.c)
\* test_pattern[i] = (uint8_t)i
ByteRange == 256

Codecs == {"none", "lz4", "zstd"}

\* length of the run of equal bytes at the head of a non-empty sequence
RECURSIVE RunLength(_)
RunLength(d) ==
    IF Len(d) = 1 \/ d[2] # d[1] THEN 1 ELSE 1 + RunLength(Tail(d))

\* a run-length code: <<count, byte, count, byte, ...>>
RECURSIVE rle(_)
rle(d) ==
    IF d = <<>> THEN <<>>
    ELSE LET n == RunLength(d)
         IN  <<n, d[1]>> \o rle(SubSeq(d, n + 1, Len(d)))

RECURSIVE unrle(_)
unrle(c) ==
    IF Len(c) < 2 THEN <<>>
    ELSE [i \in 1..c[1] |-> c[2]] \o unrle(SubSeq(c, 3, Len(c)))

\* a difference code: the first byte, then each byte minus the one before
delta(d) ==
    [i \in 1..Len(d) |->
        IF i = 1 THEN d[1] ELSE (d[i] - d[i - 1] + ByteRange) % ByteRange]

RECURSIVE undelta(_, _)
undelta(c, prev) ==
    IF c = <<>> THEN <<>>
    ELSE LET b == (prev + c[1]) % ByteRange
         IN  <<b>> \o undelta(Tail(c), b)

\* compression and decompression are closed operations over the codec
\* variant chosen when the pool is set up
compress(comp, d) ==
    IF comp = "lz4" THEN rle(d) ELSE IF comp = "zstd" THEN delta(d) ELSE d

decompress(comp, c) ==
    IF comp = "lz4" THEN unrle(c)
    ELSE IF comp = "zstd" THEN undelta(c, 0) ELSE c

\* struct task_data; task.type = TASK_STOP marks "no task"
StopTask == [type |-> "stop", lo |-> 0, hi |-> 0]

\* setup_thread_pool(&pool, comp_mode.mode, comp_mode.level, n_threads):
\* thread 0 is the main thread, the others are workers
setup_thread_pool(comp, n_threads) ==
    [mode |-> comp, nthreads |-> n_threads, queue |-> <<>>, queue_start |-> 0,
     queue_in_progress |-> 0, threads |-> [w \in 0..n_threads - 1 |-> StopTask]]

PoolOff ==
    [mode |-> "none", nthreads |-> 0, queue |-> <<>>, queue_start |-> 0,
     queue_in_progress |-> 0, threads |-> <<>>]

queue_end(pool) == Len(pool.queue)

\* translate_fd on the source side, for a regular file of the test pattern
translate_fd(sz) ==
    [remote_id |-> 1, kind |-> "file", size |-> sz,
     local |-> [j \in 1..sz |-> (j - 1) % ByteRange],
     mirror |-> <<>>, sent |-> FALSE, is_dirty |-> FALSE, damage |-> {}]

get_shadow_for_rid(map, rid) == map[rid]

\* test_mirror: bool fwd = i == 0 || i % 2
fwd(i) == i = 0 \/ i % 2 = 1

\* the shadow a pass sends from, and the pool its tasks run on
Sender == IF fwd(iter) THEN src_map[1] ELSE dst_map[1]
SenderPool == IF fwd(iter) THEN src_pool ELSE dst_pool

\* damage_everything(&shadow->damage)
damage_everything(shadow) == 0..shadow.size - 1

\* faulty variant: the pass is started without marking the shadow
MarkNothing(shadow) == shadow

\* test_mirror: shadow->is_dirty = true; damage_everything(&shadow->damage)
MarkDirty(shadow) ==
    [shadow EXCEPT !.is_dirty = TRUE, !.damage = damage_everything(shadow)]

\* update_file: memset(data + start, seqno, end - start), or no change
update_file(local, from, to, seqno) ==
    [j \in 1..Len(local) |->
        IF from < j /\ j <= to THEN seqno % ByteRange ELSE local[j]]

\* the k-th of n parts of a resource of the given size
Region(k, n, size) ==
    {j \in 0..size - 1 : (k * size) \div n <= j /\ j < ((k + 1) * size) \div n}

RECURSIVE DiffTasks(_, _, _)
DiffTasks(shadow, n, k) ==
    IF k = n THEN <<>>
    ELSE LET r == Region(k, n, shadow.size) \cap shadow.damage
         IN  (IF r = {} THEN <<>>
              ELSE <<[type |-> "diff",
                      lo |-> CHOOSE j \in r : \A x \in r : j <= x,
                      hi |-> 1 + CHOOSE j \in r : \A x \in r : j >= x]>>)
             \o DiffTasks(shadow, n, k + 1)

\* collect_update(map, pool, shadow, &transfer_data): the tasks it enqueues.
\* A shadow that was never sent goes out whole; otherwise the damage is
\* partitioned into one region per thread.
collect_update(pool, shadow) ==
    IF ~shadow.is_dirty THEN <<>>
    ELSE IF ~shadow.sent
    THEN <<[type |-> "open", lo |-> 0, hi |-> shadow.size]>>
    ELSE DiffTasks(shadow, pool.nthreads, 0)

\* run_task(&task, thread): the block the task appends to the transfer data
\* (none when its region holds no change), and the shadow afterwards
run_task(comp, task, shadow) ==
    IF task.type = "open"
    THEN [blocks |-> <<[type |-> "open", xid |-> shadow.remote_id,
                        kind |-> shadow.kind, size |-> shadow.size, off |-> 0,
                        payload |-> compress(comp, shadow.local)]>>,
          shadow |-> [shadow EXCEPT !.mirror = shadow.local, !.sent = TRUE]]
    ELSE LET ch == {j \in task.lo..task.hi - 1 :
                       shadow.local[j + 1] # shadow.mirror[j + 1]}
         IN  IF ch = {} THEN [blocks |-> <<>>, shadow |-> shadow]
             ELSE LET lo == CHOOSE j \in ch : \A x \in ch : j <= x
                      hi == 1 + CHOOSE j \in ch : \A x \in ch : j >= x
                  IN  [blocks |-> <<[type |-> "diff",
                                     xid |-> shadow.remote_id,
                                     kind |-> shadow.kind,
                                     size |-> shadow.size, off |-> lo,
                                     payload |-> compress(comp,
                                         SubSeq(shadow.local, lo + 1, hi))]>>,
                       shadow |-> [shadow EXCEPT !.mirror =
                           [j \in 1..shadow.size |->
                               IF lo < j /\ j <= hi THEN shadow.local[j]
                               ELSE shadow.mirror[j]]]]

\* finish_update(map, shadow)
finish_update(shadow) == [shadow EXCEPT !.is_dirty = FALSE, !.damage = {}]

\* iov_len of a block: the two header words and the payload
iov_len(block) == 2 + Len(block.payload)

RECURSIVE transfer_bytes(_)
transfer_bytes(td) ==
    IF td = <<>> THEN 0 ELSE iov_len(td[1]) + transfer_bytes(Tail(td))

\* combine_transfer_blocks: the blocks end to end, in buffer order, and the
\* loop of test_transfer that cuts the buffer at the sizes in the headers
combine_transfer_blocks(td) ==
    [i \in 1..Len(td) |-> [td[i] EXCEPT !.payload = <<Len(@)>> \o @]]

read_block(framed) ==
    [framed EXCEPT !.payload = SubSeq(@, 2, 1 + framed.payload[1])]

\* write data at offset off
WriteAt(buf, off, data) ==
    [j \in 1..Len(buf) |->
        IF off < j /\ j <= off + Len(data) THEN data[j - off] ELSE buf[j]]

\* apply_update(map, pool, render_data, type, xid, &block)
apply_update(map, comp, block) ==
    LET data == decompress(comp, block.payload)
    IN  IF block.type = "open"
        THEN IF block.xid \in DOMAIN map THEN map
             ELSE map \o <<[remote_id |-> block.xid, kind |-> block.kind,
                            size |-> block.size, local |-> data,
                            mirror |-> data, sent |-> TRUE,
                            is_dirty |-> FALSE, damage |-> {}]>>
        ELSE IF block.xid \notin DOMAIN map THEN map
        ELSE [map EXCEPT ![block.xid].local = WriteAt(@, block.off, data),
                         ![block.xid].mirror = WriteAt(@, block.off, data)]

\* check_match(orig_fd, copy_fd, ...): same type, same size, same bytes
check_match(orig, copy) ==
    /\ copy.kind = orig.kind
    /\ copy.size = orig.size /\ Len(copy.local) = Len(orig.local)
    /\ copy.local = orig.local

\* faulty variant: the pool counts as done as soon as its queue is empty
PoolDrained(pool) == queue_end(pool) = pool.queue_start

\* wait_for_thread_pool: done = pool->queue_end == pool->queue_start &&
\* pool->queue_in_progress == 0
PoolDone(pool) ==
    queue_end(pool) = pool.queue_start /\ pool.queue_in_progress = 0

\* faulty variant: the thread counts the task it takes twice
TakeTaskCountedTwice(pool, w) ==
    [pool EXCEPT !.threads[w] = pool.queue[pool.queue_start + 1],
                 !.queue_start = @ + 1,
                 !.queue_in_progress = @ + 2]

\* faulty variant: the task a thread takes runs on to the end of the last task's region
TakeTaskToEnd(pool, w) ==
    [pool EXCEPT !.threads[w] =
                     [pool.queue[pool.queue_start + 1] EXCEPT
                        !.hi = pool.queue[Len(pool.queue)].hi],
                 !.queue_start = @ + 1,
                 !.queue_in_progress = @ + 1]

\* a thread takes the task at queue_start
TakeTask(pool, w) ==
    [pool EXCEPT !.threads[w] = pool.queue[pool.queue_start + 1],
                 !.queue_start = @ + 1,
                 !.queue_in_progress = @ + 1]

\* faulty variant: the thread finishes its task without the decrement
ReleaseTaskKeepsCount(pool, w) == [pool EXCEPT !.threads[w] = StopTask]

ReleaseTask(pool, w) ==
    [pool EXCEPT !.threads[w] = StopTask, !.queue_in_progress = @ - 1]

SetSender(shadow, pool) ==
    /\ IF fwd(iter)
       THEN src_map' = [src_map EXCEPT ![1] = shadow] /\ src_pool' = pool
                /\ UNCHANGED <<dst_map, dst_pool>>
       ELSE dst_map' = [dst_map EXCEPT ![1] = shadow] /\ dst_pool' = pool
                /\ UNCHANGED <<src_map, src_pool>>

\* test_mirror, one turn of the loop up to the call of test_transfer: the
\* update function changes the target (or maps nothing and fails), and the
\* sending shadow is marked
TestUpdate ==
    /\ tpc = "update"
    /\ UNCHANGED <<svars, shvars>>
    /\ \E change \in {"none", "memset", "mmapfail"},
          from \in 0..FileSize - 1, to \in 0..FileSize - 1 :
        /\ from <= to
        /\ change \in {"none", "mmapfail"} => from = 0 /\ to = 0
        /\ iter = 0 => change = "none"
        /\ IF change = "mmapfail"
           THEN /\ ndiff' = -1
                /\ pass' = FALSE
                /\ tpc' = "done"
                /\ UNCHANGED <<src_map, dst_map, src_pool, dst_pool>>
           ELSE /\ ndiff' = IF iter = 0 THEN FileSize
                            ELSE IF change = "none" THEN 0 ELSE to - from
                /\ LET s == Sender
                       u == IF change = "memset"
                            THEN [s EXCEPT !.local =
                                     update_file(@, from, to, iter)]
                            ELSE s
                   IN  SetSender(MarkDirty(u), SenderPool)
                /\ pass' = pass
                /\ tpc' = "collect"
    /\ UNCHANGED <<iter, transfer_data, start, synced>>

\* test_transfer: collect_update(src_map, src_pool, src_shadow, &td)
Collect ==
    /\ tpc = "collect"
    /\ UNCHANGED <<svars, shvars>>
    /\ SetSender(Sender,
                 [SenderPool EXCEPT !.queue = collect_update(SenderPool, Sender),
                                    !.queue_start = 0])
    /\ transfer_data' = <<>>
    /\ start' = 0
    /\ tpc' = "wait"
    /\ UNCHANGED <<iter, ndiff, pass, synced>>

\* a worker thread of the pool takes a task
WorkerTake ==
    /\ tpc \in {"wait", "judge"}
    /\ UNCHANGED <<svars, shvars>>
    /\ \E w \in 1..SenderPool.nthreads - 1 :
        /\ SenderPool.threads[w] = StopTask
        /\ SenderPool.queue_start < queue_end(SenderPool)
        /\ SetSender(Sender, TakeTask(SenderPool, w))
    /\ UNCHANGED <<tpc, iter, ndiff, transfer_data, start, pass, synced>>

\* a worker thread runs its task and reports it done
WorkerRun ==
    /\ tpc \in {"wait", "judge"}
    /\ UNCHANGED <<svars, shvars>>
    /\ \E w \in 1..SenderPool.nthreads - 1 :
        /\ SenderPool.threads[w] # StopTask
        /\ LET r == run_task(SenderPool.mode, SenderPool.threads[w], Sender)
           IN  /\ transfer_data' = transfer_data \o r.blocks
               /\ SetSender(r.shadow, ReleaseTask(SenderPool, w))
    /\ UNCHANGED <<tpc, iter, ndiff, start, pass, synced>>

\* wait_for_thread_pool, one turn of its loop up to run_task: the main
\* thread reads done and takes the next task if there is one; with no task
\* it sleeps, and leaves the loop when done.  On leaving, test_transfer
\* calls finish_update.
WaitForThreadPool ==
    /\ tpc = "wait"
    /\ UNCHANGED <<svars, shvars>>
    /\ SenderPool.threads[0] = StopTask
    /\ LET done == PoolDone(SenderPool)
       IN  IF /\ SenderPool.queue_start < queue_end(SenderPool)
              /\ SenderPool.queue[SenderPool.queue_start + 1].type
                     # StopTask.type
           THEN /\ SetSender(Sender, TakeTask(SenderPool, 0))
                /\ tpc' = "wait"
           ELSE IF done
           THEN /\ SetSender(finish_update(Sender), SenderPool)
                /\ tpc' = "judge"
           ELSE /\ UNCHANGED <<src_map, dst_map, src_pool, dst_pool>>
                /\ tpc' = "wait"
    /\ UNCHANGED <<iter, ndiff, transfer_data, start, pass, synced>>

\* wait_for_thread_pool: run_task(&task, &pool->threads[0]) and the
\* decrement of queue_in_progress
MainRun ==
    /\ tpc = "wait"
    /\ UNCHANGED <<svars, shvars>>
    /\ SenderPool.threads[0] # StopTask
    /\ LET r == run_task(SenderPool.mode, SenderPool.threads[0], Sender)
       IN  /\ transfer_data' = transfer_data \o r.blocks
           /\ SetSender(r.shadow, ReleaseTask(SenderPool, 0))
    /\ UNCHANGED <<tpc, iter, ndiff, start, pass, synced>>

\* test_mirror after test_transfer has returned subpass
EndPass(subpass) ==
    /\ pass' = (pass /\ subpass)
    /\ IF ~subpass THEN tpc' = "done" /\ iter' = iter
       ELSE IF iter + 1 < NumPasses THEN tpc' = "update" /\ iter' = iter + 1
       ELSE tpc' = "done" /\ iter' = iter
    /\ synced' = IF subpass THEN Sender.local ELSE synced

\* test_transfer after finish_update: what the number of blocks is held
\* against, and combine_transfer_blocks
Judge ==
    /\ tpc = "judge"
    /\ UNCHANGED <<svars, shvars>>
    /\ IF ndiff = 0
       THEN /\ EndPass(Len(transfer_data) = 0)
            /\ UNCHANGED transfer_data
       ELSE IF Len(transfer_data) = 0
       THEN /\ EndPass(FALSE)
            /\ UNCHANGED transfer_data
       ELSE /\ transfer_data' = combine_transfer_blocks(transfer_data)
            /\ tpc' = "apply"
            /\ UNCHANGED <<iter, pass, synced>>
    /\ UNCHANGED <<ndiff, src_map, dst_map, src_pool, dst_pool, start>>

\* test_transfer: one turn of the loop that applies the blocks
ApplyBlock ==
    /\ tpc = "apply"
    /\ UNCHANGED <<svars, shvars>>
    /\ IF start < Len(transfer_data)
       THEN /\ LET tmp == read_block(transfer_data[start + 1])
               IN  IF fwd(iter)
                   THEN /\ dst_map' = apply_update(dst_map, dst_pool.mode, tmp)
                        /\ UNCHANGED src_map
                   ELSE /\ src_map' = apply_update(src_map, dst_pool.mode, tmp)
                        /\ UNCHANGED dst_map
            /\ start' = start + 1
            /\ tpc' = "apply"
       ELSE /\ tpc' = "check"
            /\ UNCHANGED <<src_map, dst_map, start>>
    /\ UNCHANGED <<iter, ndiff, src_pool, dst_pool, transfer_data, pass, synced>>

\* test_transfer: return check_match(src_shadow->fd_local,
\* dst_shadow->fd_local, ...)
CheckMatch ==
    /\ tpc = "check"
    /\ UNCHANGED <<svars, shvars>>
    /\ EndPass(/\ 1 \in DOMAIN src_map /\ 1 \in DOMAIN dst_map
               /\ check_match(Sender, IF fwd(iter) THEN dst_map[1]
                                      ELSE src_map[1]))
    /\ UNCHANGED <<ndiff, src_map, dst_map, src_pool, dst_pool, transfer_data,
                   start>>

\* the mirroring test is not part of a supervisor run
MirrorOff ==
    /\ tpc = "off" /\ iter = 0 /\ ndiff = 0
    /\ src_map = <<>> /\ dst_map = <<>>
    /\ src_pool = PoolOff /\ dst_pool = PoolOff
    /\ transfer_data = <<>> /\ start = 0 /\ pass = TRUE /\ synced = <<>>

\* ---------------------------------------------- setup_login_shell_command
Slash == 47
Hyphen == 45

\* strcpy(shell, "/bin/sh") and strcpy(shellname, "-sh")
BinSh == <<Slash, 98, 105, 110, Slash, 115, 104>>
DashSh == <<Hyphen, 115, 104>>

\* the bytes $SHELL is made of
ShellChars == {Slash, 97}

\* what the byte in front of the shell buffer may hold
StackBytes == {NUL, Slash, 97}

\* lines 463-468: for (; start-- > 0;) over the bytes of shell, from the
\* end; the value of start when the loop is left
RECURSIVE find_start(_, _)
find_start(s, from) ==
    IF from > 0
    THEN IF s[from] = Slash THEN from ELSE find_start(s, from - 1)
    ELSE -1

\* the C string at shell + start, when shell holds s and the byte in front
\* of it is before
StringAt(s, at, before) ==
    IF at = -1
    THEN IF before = NUL THEN <<>> ELSE <<before>> \o s
    ELSE SubSeq(s, at + 1, Len(s))

\* lines 444-445: what the buffers hold when the function returns early
default_shell == [shell |-> BinSh, shellname |-> DashSh]

\* lines 441-474; before is the byte at shell[-1]
setup_login_shell_command(env, login, before) ==
    IF ~env.set THEN default_shell
    ELSE
      LET len == Len(env.val)
      IN  IF len >= ShellLimit THEN default_shell
          ELSE [shell |-> env.val,
                shellname |->
                    IF login
                    THEN <<Hyphen>>
                             \o StringAt(env.val, find_start(env.val, len),
                                         before)
                    ELSE env.val]

SetupLoginShell ==
    /\ shpc = "call"
    /\ UNCHANGED <<svars, mvars>>
    /\ \E before \in StackBytes :
           LET r == setup_login_shell_command(shell_env, login_shell, before)
           IN  shell' = r.shell /\ shellname' = r.shellname
    /\ shpc' = "done"
    /\ UNCHANGED <<shell_env, login_shell>>

\* no default shell is started
ShellOff ==
    /\ shpc = "off" /\ shell_env = [set |-> FALSE, val |-> <<>>]
    /\ login_shell = FALSE /\ shell = <<>> /\ shellname = <<>>

RECURSIVE Strings(_)
Strings(n) ==
    IF n = 0 THEN {<<>>}
    ELSE LET shorter == Strings(n - 1)
         IN  shorter \cup {Append(s, c) : s \in shorter, c \in ShellChars}

\* ------------------------------------------------------- specification
\* run_server is called.
Init ==
    /\ mode \in {"oneshot", "multi"}
    /\ has_control \in BOOLEAN
    /\ unlink_at_end \in BOOLEAN
    /\ pc = "init"
    /\ retcode = EXIT_SUCCESS
    /\ shutdown_flag = [super |-> FALSE, reco |-> FALSE]
    /\ fifo = <<>>
    /\ nctl = 0
    /\ pending = 0
    /\ nacc = 0
    /\ current_sockaddr = PathB
    /\ token = ZeroToken
    /\ connmap = <<>>
    /\ chans = <<>>
    /\ workers = <<>>
    /\ unlinked = {}
    /\ app = [st |-> "none", status |-> 0]
    /\ reco = NoReco
    /\ hangup = FALSE
    /\ ctl_last = "none"
    /\ ctl_seen = {}
    /\ nfault = 0
    /\ fds = NoFds
    /\ files = {}
    /\ ShellOff
    /\ MirrorOff

Next ==
    \/ RunServerStart
    \/ RunServerWait
    \/ MultiTop
    \/ MultiPollFail
    \/ MultiPollEvents
    \/ SingleStart
    \/ SingleLoopReturns
    \/ RecoTop
    \/ RecoPollFail
    \/ RecoPollEvents
    \/ ControlWrite
    \/ AppConnect
    \/ AppExit
    \/ WorkerExit
    \/ Sigint

Spec == Init /\ [][Next]_vars

\* run_multi_server when no SIGINT is delivered: the steps of the
\* supervisor are taken when they can be; nothing obliges an application to
\* connect, a path to be written, a child to exit or a call to fail.
InitMulti == Init /\ mode = "multi"

NextMulti ==
    \/ RunServerStart
    \/ RunServerWait
    \/ MultiTop
    \/ MultiPollFail
    \/ MultiPollEvents
    \/ ControlWrite
    \/ AppConnect
    \/ AppExit
    \/ WorkerExit

SpecMulti ==
    /\ InitMulti /\ [][NextMulti]_vars
    /\ WF_vars(RunServerStart) /\ WF_vars(MultiTop)
    /\ WF_vars(MultiPollEvents) /\ WF_vars(RunServerWait)

\* the supervisor is not part of a run of the mirroring test
SupervisorOff ==
    /\ mode = "off" /\ has_control = FALSE /\ unlink_at_end = FALSE
    /\ pc = "off" /\ retcode = EXIT_SUCCESS
    /\ shutdown_flag = [super |-> FALSE, reco |-> FALSE]
    /\ fifo = <<>> /\ nctl = 0 /\ pending = 0 /\ nacc = 0
    /\ current_sockaddr = PathB /\ token = ZeroToken
    /\ connmap = <<>> /\ chans = <<>> /\ workers = <<>> /\ unlinked = {}
    /\ app = [st |-> "off", status |-> 0]
    /\ reco = NoReco /\ hangup = FALSE
    /\ ctl_last = "none" /\ ctl_seen = {} /\ nfault = 0
    /\ fds = NoFds /\ files = {}

\* test_mirror has set up the two maps and pools and translated the file
InitMirror ==
    /\ SupervisorOff
    /\ ShellOff
    /\ tpc = "update" /\ iter = 0 /\ ndiff = 0
    /\ src_map = <<translate_fd(FileSize)>>
    /\ dst_map = <<>>
    /\ \E comp \in Codecs, n_src_threads, n_dst_threads \in 1..MaxThreads :
           /\ src_pool = setup_thread_pool(comp, n_src_threads)
           /\ dst_pool = setup_thread_pool(comp, n_dst_threads)
    /\ transfer_data = <<>> /\ start = 0 /\ pass = TRUE /\ synced = <<>>

NextMirror ==
    \/ TestUpdate
    \/ Collect
    \/ WorkerTake
    \/ WorkerRun
    \/ WaitForThreadPool
    \/ MainRun
    \/ Judge
    \/ ApplyBlock
    \/ CheckMatch

SpecMirror == InitMirror /\ [][NextMirror]_vars

\* test_mirror under fair scheduling: the main thread takes its steps, and
\* a worker that has taken a task finishes it; no worker is obliged to
\* take a task.
SpecMirrorFair ==
    /\ InitMirror /\ [][NextMirror]_vars
    /\ WF_vars(WaitForThreadPool) /\ WF_vars(MainRun) /\ WF_vars(WorkerRun)

\* the child is about to call setup_login_shell_command
InitShell ==
    /\ SupervisorOff
    /\ MirrorOff
    /\ shpc = "call"
    /\ shell_env \in {[set |-> FALSE, val |-> <<>>]}
                     \cup {[set |-> TRUE, val |-> s] : s \in Strings(MaxShellLen)}
    /\ login_shell \in BOOLEAN
    /\ shell = <<>> /\ shellname = <<>>

NextShell == SetupLoginShell

SpecShell == InitShell /\ [][NextShell]_vars



\* ================================================================ claims
Fresh == {"run_single_server", "handle_new_server_connection"}
Replacement == {"update_connections", "run_single_server_reconnector"}

\* the replacement channels of the iteration that went over a link
Sent(ch) == {i \in 1..Len(ch) : ch[i].by = "update_connections"
                                  /\ ch[i].handed = "link"}

SentOn(ch, l) == {i \in Sent(ch) : ch[i].link = l}

\* the connection table as update_connections found it in this iteration:
\* a connection accepted afterwards in the same iteration added one record
OldRecords ==
    IF \E i \in 1..Len(chans) : chans[i].by = "handle_new_server_connection"
                                  /\ chans[i].handed = "loop"
    THEN SubSeq(connmap, 1, Len(connmap) - 1)
    ELSE connmap

\* C1: the token written on a session's first channel has FIXED set and
\* UPDATE clear; every token written on a replacement channel of the session
\* has UPDATE set and the three key words of the session's first token.
C1_TokenKeyStable ==
    \A i \in 1..Len(chans) :
        LET c == chans[i]
        IN  c.wr # "none" =>
              /\ "FIXED" \in c.tok.header
              /\ Len(c.tok.key) = 3
              /\ c.by \in Fresh =>
                    /\ "UPDATE" \notin c.tok.header
                    /\ c.handed = "loop" => workers[c.sess].first = c.tok
              /\ c.by \in Replacement =>
                    /\ "UPDATE" \in c.tok.header
                    /\ c.tok.key = workers[c.sess].first.key

\* a replacement channel of one session is open for writing while the
\* supervisor's token variable holds another session's key
C1_Witness ==
    /\ mode = "multi"
    /\ \E i \in 1..Len(chans) :
           /\ chans[i].by = "update_connections"
           /\ chans[i].wr = "full"
           /\ chans[i].handed = "link"
           /\ chans[i].tok.key # token.key

\* C2: a channel fd is handed to a worker (main_interface_loop or
\* send_one_fd) only with its token completely written; after a failed or
\* short token write the fd is closed and handed to nobody.
C2_TokenBeforeHandoff ==
    \A i \in 1..Len(chans) :
        /\ chans[i].handed # "no" => chans[i].wr = "full"
        /\ chans[i].wr \in {"fail", "short"} =>
              ~chans[i].open /\ chans[i].handed = "no"

C2_Witness ==
    \E i, j \in 1..Len(chans) :
        /\ chans[i].handed = "link"
        /\ chans[j].wr = "short" /\ ~chans[j].open /\ chans[j].handed = "no"

\* C4: in multi mode, when a valid path is read and every connect, write
\* and send succeeds, each record of the table is sent exactly one
\* replacement fd, the one opened for it, on its own link_fd.
C4_EachRecordOneFd ==
    (mode = "multi" /\ ctl_last = "ok") =>
        /\ Cardinality(Sent(chans)) = Len(OldRecords)
        /\ \A r \in 1..Len(OldRecords) :
               /\ Cardinality(SentOn(chans, OldRecords[r].linkfd)) = 1
               /\ \A i \in SentOn(chans, OldRecords[r].linkfd) :
                      /\ chans[i].sess = OldRecords[r].pid
                      /\ chans[i].tok.key = OldRecords[r].token.key

C4_Witness ==
    /\ mode = "multi" /\ ctl_last = "ok"
    /\ Len(OldRecords) >= 2
    /\ Cardinality(Sent(chans)) >= 2

\* C6: in multi mode a control input whose path is too long for sun_path
\* ends neither the loop nor changes the endpoint, the table or a worker's
\* channel; a valid path read later is taken up by update_connections.
C6_OversizedRejected ==
    [][ /\ (mode = "multi" /\ ctl_last = "none" /\ ctl_last' = "toolong") =>
              /\ current_sockaddr' = current_sockaddr
              /\ SubSeq(connmap', 1, Len(connmap)) = connmap
              /\ SubSeq(workers', 1, Len(workers)) = workers
              /\ Sent(chans') = {}
              /\ pending = 0 =>
                    /\ pc' = "top"
                    /\ retcode' = retcode
                    /\ connmap' = connmap
                    /\ workers' = workers
                    /\ unlinked' = unlinked
                    /\ chans' = <<>>
        /\ (mode = "multi" /\ "toolong" \in ctl_seen /\ ctl_last = "none"
              /\ ctl_last' = "ok") =>
              /\ current_sockaddr' = read_sockaddr(fifo, "ok").sun_path
              /\ Cardinality(Sent(chans')) = Len(connmap)
              /\ \A r \in 1..Len(connmap) :
                     workers'[connmap[r].pid].ep = current_sockaddr'
      ]_vars

C6_Witness ==
    /\ mode = "multi" /\ "toolong" \in ctl_seen /\ ctl_last = "ok"
    /\ Len(OldRecords) >= 1
    /\ pc = "top"

\* C7: in the oneshot reconnection controller an invalid endpoint path (too
\* long, or one to which connect fails) is not fatal: the controller goes
\* on with its loop.
C7_InvalidPathNotFatal ==
    (mode = "oneshot"
       /\ (ctl_last = "toolong" \/ (ctl_last = "fail" /\ chans = <<>>)))
        => reco.pc = "top"

\* C8: in the oneshot reconnection controller a failed connect, token write
\* or send_one_fd sends no fd over the link, leaves the worker on its
\* channel and does not end the controller, which serves later inputs.
C8_FailedAttemptSkipped ==
    [][ (mode = "oneshot" /\ ctl_last = "none" /\ ctl_last' = "fail") =>
            /\ workers' = workers
            /\ \A i \in 1..Len(chans') :
                   chans'[i].handed = "no" /\ ~chans'[i].open
            /\ reco'.pc = "top"
            /\ reco'.retcode = EXIT_SUCCESS
            /\ reco'.closes = reco.closes
      ]_vars

C8_Witness ==
    /\ mode = "oneshot" /\ "fail" \in ctl_seen /\ ctl_last = "ok"
    /\ \E i \in 1..Len(chans) : chans[i].handed = "link"
    /\ reco.pc = "top"

\* C9: when the controller's poll returns with hangup on the link it leaves
\* the loop with EXIT_SUCCESS, reads nothing from a control FIFO that is
\* readable in the same wakeup, and has closed control_pipe and link_fd
\* exactly once.
C9_HangupExit ==
    [][ (reco.pc = "poll" /\ hangup /\ reco' # reco /\ nfault' = nfault
           /\ shutdown_flag' = shutdown_flag) =>
            /\ reco'.pc = "done"
            /\ reco'.retcode = EXIT_SUCCESS
            /\ fifo' = fifo
            /\ chans' = chans
            /\ workers' = workers
            /\ ctl_last' = ctl_last
            /\ reco.closes = [control_pipe |-> 0, linkfd |-> 0]
            /\ reco'.closes = [control_pipe |-> 1, linkfd |-> 1]
      ]_vars

C9_Witness ==
    /\ mode = "oneshot" /\ hangup /\ fifo # <<>>
    /\ reco.pc = "done" /\ reco.retcode = EXIT_SUCCESS
    /\ ~shutdown_flag.reco
    /\ reco.closes = [control_pipe |-> 1, linkfd |-> 1]

\* C10: in multi mode, when the migration fails at record i, the records
\* before i have each been sent their replacement fd and stay on the new
\* endpoint, the records from i on have been sent nothing, and the current
\* endpoint and the old socket file are as they were.
C10_PartialMigration ==
    [][ (mode = "multi" /\ ctl_last = "none" /\ ctl_last' = "fail") =>
            LET k == Cardinality(Sent(chans'))
                new_sockaddr == read_sockaddr(fifo, "ok").sun_path
            IN  /\ k < Len(connmap)
                /\ \A r \in 1..Len(connmap) :
                       IF r <= k
                       THEN /\ Cardinality(SentOn(chans', connmap[r].linkfd)) = 1
                            /\ workers'[connmap[r].pid].ep = new_sockaddr
                       ELSE /\ SentOn(chans', connmap[r].linkfd) = {}
                            /\ workers'[connmap[r].pid] = workers[connmap[r].pid]
                /\ current_sockaddr' = current_sockaddr
                /\ pc' = "top" => unlinked' = unlinked
                /\ \A i \in 1..Len(chans') :
                       chans'[i].by = "handle_new_server_connection" =>
                           chans'[i].ep = current_sockaddr
      ]_vars

C10_Witness ==
    /\ mode = "multi" /\ ctl_last = "fail" /\ pc = "top"
    /\ Len(OldRecords) >= 2
    /\ Cardinality(Sent(chans)) = 1
    /\ workers[OldRecords[1].pid].ep # current_sockaddr
    /\ workers[OldRecords[2].pid].ep = current_sockaddr

\* C3: whenever a pass has applied every block it produced, in buffer
\* order, and between passes, the receiving side's resource has the kind,
\* the size and the bytes of the sending side's; for every codec, every
\* pair of thread counts, and passes in either direction.
C3_RoundTrip ==
    /\ tpc = "check" => src_map # <<>> /\ dst_map # <<>>
    /\ (tpc \in {"check", "update", "done"} /\ dst_map # <<>>) =>
           /\ check_match(src_map[1], dst_map[1])
           /\ check_match(dst_map[1], src_map[1])

\* a reverse pass under a compressing codec has applied two blocks made by
\* two threads
C3_Witness ==
    /\ tpc = "check" /\ ~fwd(iter)
    /\ dst_pool.mode # "none" /\ dst_pool.nthreads >= 2
    /\ Len(transfer_data) >= 2 /\ start = Len(transfer_data)
    /\ dst_map[1].local # synced
    /\ src_map[1].local = dst_map[1].local

C11_ExitStatus ==
    [][ /\ (pc # "exited" /\ pc' = "exited") =>
               retcode' = IF app'.st = "reaped" THEN app'.status
                          ELSE IF pc = "init" THEN EXIT_FAILURE
                          ELSE retcode
        /\ (pc # "returned" /\ pc' = "returned" /\ app'.st = "reaped") =>
               retcode' = app'.status
        /\ (pc # "returned" /\ pc' = "returned" /\ nfault' > nfault) =>
               retcode' = EXIT_FAILURE
        /\ pc = "exited" => retcode' = retcode
      ]_vars

\* the session set-up of oneshot mode failed, the application exited with
\* another status, and the final wait reaped it
C11_Witness ==
    /\ mode = "oneshot" /\ pc = "exited" /\ nfault = 1
    /\ workers = <<>>
    /\ app = [st |-> "reaped", status |-> 3]
    /\ retcode = 3

\* C12: within one process (the supervisor, the reconnection controller, a
\* forked worker's set-up code) checked_close is never called on an fd that
\* the process has already closed or never held.
C12_NoDoubleClose ==
    /\ fds.twice = {}
    /\ reco.closes.control_pipe <= 1
    /\ reco.closes.linkfd <= 1

\* multi mode with a control pipe: a second worker was forked while the
\* table held the first one's link fd, a sweep dropped a record, and the
\* clean-up at the end closed what was left
C12_Witness ==
    /\ mode = "multi" /\ has_control /\ pc = "exited"
    /\ Len(workers) = 2 /\ Len(connmap) = 1
    /\ workers[1].st = "reaped"
    /\ fds = NoFds

\* C13: every fd the supervisor obtains in run_server and run_single_server
\* is closed on every return path of run_server: when run_server has
\* returned, the supervisor holds no open fd.
C13_AllFdsClosed == pc = "exited" => fds.open = {}

\* C19: when run_server has returned, the control FIFO it made with mkfifo
\* and, in multi mode, the display socket path it bound no longer exist.
C19_PathsUnlinked == pc = "exited" => files = {}

\* the bytes of one read of the control FIFO, up to the first NUL or newline
UpToTerminator(bytes) ==
    LET chunk == SubSeq(bytes, 1, Min(Len(bytes), PathBufSize - 1))
        ends  == {i \in 1..Len(chunk) : chunk[i] \in {NUL, 10}}
    IN  IF ends = {} THEN chunk
        ELSE SubSeq(chunk, 1,
                    (CHOOSE i \in ends : \A j \in ends : i <= j) - 1)

\* C16: the path the supervisor connects to and adopts is the control input
\* up to the first NUL or newline, and the length limit is applied to that
\* path: an input is refused as too long exactly when that path does not
\* fit sun_path.
C16_NewlineEndsPath ==
    [][ (mode = "multi" /\ ctl_last = "none" /\ ctl_last' # "none"
         /\ ctl_last' # "readerr") =>
            /\ ctl_last' = "ok" => current_sockaddr' = UpToTerminator(fifo)
            /\ ctl_last' = "toolong" <=>
                   Len(UpToTerminator(fifo)) >= SunPathSize
            /\ \A i \in 1..Len(chans') :
                   chans'[i].by = "update_connections" =>
                       chans'[i].ep = UpToTerminator(fifo)
      ]_vars

\* C18: in multi mode a set-up failure for an accepted connection ends that
\* session only: appfd and chanfd are closed, no worker is forked, the table
\* is as the control branch of the iteration left it, and the supervisor
\* goes back to the top of its loop with retcode unchanged.
C18_SetupFailureLocal ==
    [][ (mode = "multi" /\ pc = "poll" /\ nacc' = nacc + 1
         /\ workers'[nacc'] = NoWorker) =>
            /\ Fd("appfd", nacc') \notin fds'.open
            /\ \A i \in 1..Len(chans') :
                   chans'[i].by = "handle_new_server_connection" =>
                       ~chans'[i].open
            /\ Len(connmap') = Len(connmap)
            /\ pc' = "top"
            /\ retcode' = retcode
      ]_vars

\* C20: once the shutdown flag is set in multi mode, the supervisor handles
\* no further event before it leaves its loop: it accepts no connection,
\* forks no worker and reads nothing from the control FIFO.
C20_ShutdownHandlesNothing ==
    [][ (mode = "multi" /\ shutdown_flag.super /\ pc \in {"top", "poll"}) =>
            /\ nacc' = nacc
            /\ Len(workers') = Len(workers)
            /\ Len(fifo') >= Len(fifo)
      ]_vars

\* the bytes of the resource a block of this pass covers
BlockRegion(b) ==
    b.off .. (b.off + Len(decompress(SenderPool.mode, b.payload)) - 1)

\* the tasks of this pass, by position in the queue, whose region holds the
\* block
TasksOf(b) ==
    {k \in 1..Len(SenderPool.queue) :
        BlockRegion(b) \subseteq
            SenderPool.queue[k].lo .. (SenderPool.queue[k].hi - 1)}

C14_DefaultShell ==
    (shpc = "done" /\ (~shell_env.set \/ Len(shell_env.val) >= ShellLimit)) =>
        /\ shell = BinSh
        /\ shellname = IF login_shell THEN DashSh ELSE BinSh

\* the part of s after its last '/', all of s when it has none
AfterLastSlash(s) ==
    LET at == {i \in 1..Len(s) : s[i] = Slash}
    IN  IF at = {} THEN s
        ELSE SubSeq(s, 1 + (CHOOSE i \in at : \A j \in at : j <= i), Len(s))

\* C15: for a $SHELL below the limit the path that is run is $SHELL, and
\* argv[0] is '-' followed by the part of $SHELL after its last '/' (all of
\* it when it has none) for a login shell, and $SHELL otherwise.
C15_ShellName ==
    (shpc = "done" /\ shell_env.set /\ Len(shell_env.val) < ShellLimit) =>
        /\ shell = shell_env.val
        /\ shellname = IF login_shell
                       THEN <<Hyphen>> \o AfterLastSlash(shell_env.val)
                       ELSE shell_env.val

\* C21: in multi mode, once the root application has exited while the
\* supervisor is in its loop, the supervisor eventually leaves the loop.
C21_AppExitNoticed ==
    (mode = "multi" /\ app.st = "exited" /\ pc \in {"top", "poll"})
        ~> (pc \in {"returned", "exited"})

\* the threads of the pool that hold a task
Busy(pool) == {w \in DOMAIN pool.threads : pool.threads[w] # StopTask}

\* C22: queue_in_progress counts the tasks that are taken and not finished,
\* so it is never negative, and queue_start never passes queue_end; once
\* wait_for_thread_pool has returned, every task of the queue has been
\* taken and finished.  A step in which the main thread takes a task takes
\* the one at queue_start, which is not TASK_STOP, and adds one to
\* queue_start and to queue_in_progress; the step in which it finishes the
\* task takes one off queue_in_progress.
C22_QueueCounters ==
    /\ [](tpc \in {"wait", "judge", "apply", "check"} =>
            /\ SenderPool.queue_in_progress = Cardinality(Busy(SenderPool))
            /\ SenderPool.queue_in_progress >= 0
            /\ SenderPool.queue_start <= queue_end(SenderPool)
            /\ tpc # "wait" => /\ PoolDone(SenderPool)
                               /\ Busy(SenderPool) = {})
    /\ [][ (tpc = "wait" /\ tpc' = "wait") =>
             /\ (0 \notin Busy(SenderPool) /\ 0 \in Busy(SenderPool')) =>
                    /\ SenderPool'.threads[0] =
                           SenderPool.queue[SenderPool.queue_start + 1]
                    /\ SenderPool'.threads[0].type # StopTask.type
                    /\ SenderPool'.queue_start = SenderPool.queue_start + 1
                    /\ SenderPool'.queue_in_progress =
                           SenderPool.queue_in_progress + 1
             /\ (0 \in Busy(SenderPool) /\ 0 \notin Busy(SenderPool')) =>
                    /\ SenderPool'.queue_start = SenderPool.queue_start
                    /\ SenderPool'.queue_in_progress =
                           SenderPool.queue_in_progress - 1
         ]_vars

\* the main thread and a worker each hold a task of the same pass
C22_Witness ==
    /\ tpc = "wait"
    /\ Busy(SenderPool) = {0, 1}
    /\ SenderPool.queue_in_progress = 2
    /\ SenderPool.queue_start = queue_end(SenderPool)

\* C23: under fair scheduling wait_for_thread_pool, once called, returns,
\* whether or not a worker thread takes any of the tasks; and it does not
\* return while a task is queued or in progress.
C23_WaitReturns ==
    /\ (tpc = "wait") ~> (tpc = "judge")
    /\ [][ (tpc = "wait" /\ tpc' # "wait") =>
               /\ SenderPool.queue_start = queue_end(SenderPool)
               /\ SenderPool.queue_in_progress = 0
               /\ \A w \in DOMAIN SenderPool.threads :
                      SenderPool.threads[w] = StopTask
         ]_vars

\* a pool of one thread, the main thread, has drained the queue of a pass
\* that changed the file, and wait_for_thread_pool has returned
C23_Witness ==
    /\ tpc = "judge" /\ iter > 0
    /\ SenderPool.nthreads = 1
    /\ Len(SenderPool.queue) = 1
    /\ SenderPool.queue_start = 1
    /\ Len(transfer_data) = 1

\* the workers that were forked and have not been swept
Unswept == {w \in 1..Len(workers) : workers[w].st \in {"run", "exited"}}

\* C24: while run_multi_server is in its loop with a control FIFO, the
\* table holds one record for each worker that was forked and not yet
\* swept, and no other: the record has the token written on the worker's
\* first channel, the worker's pid and the supervisor's end of the worker's
\* link pair, which the supervisor holds open.  Without a control FIFO the
\* table is empty.
C24_TableMatchesWorkers ==
    (mode = "multi" /\ pc \in {"top", "poll"}) =>
        IF has_control
        THEN /\ {connmap[r].pid : r \in 1..Len(connmap)} = Unswept
             /\ Len(connmap) = Cardinality(Unswept)
             /\ \A r \in 1..Len(connmap) :
                    /\ connmap[r].token = workers[connmap[r].pid].first
                    /\ connmap[r].linkfd = connmap[r].pid
                    /\ Fd("linkfd", connmap[r].linkfd) \in fds.open
                    /\ Fd("linksocks1", connmap[r].pid) \notin fds.open
        ELSE connmap = <<>>

\* the first worker was swept, and the second was forked; a migration has
\* been made
C24_Witness ==
    /\ mode = "multi" /\ has_control /\ pc = "top"
    /\ Len(workers) = 2
    /\ workers[1].st = "reaped" /\ workers[2].st = "run"
    /\ Len(connmap) = 1 /\ connmap[1].pid = 2
    /\ current_sockaddr = PathA

\* C25: a worker forked in multi mode enters its loop holding its channel
\* fd, its application fd and, with a control FIFO, its own end of its link
\* pair, and nothing else: not the display socket, the control FIFO, the
\* supervisor's end of its link pair or another record's link fd.  The
\* supervisor holds neither the application fd nor the worker's link end,
\* and has closed the channel fd it handed to the worker's loop.
C25_WorkerHoldsOwnFds ==
    mode = "multi" =>
        /\ \A w \in 1..Len(workers) :
               workers[w].st # "none" =>
                   /\ \E c \in 1..MaxConns + MaxCtl * MaxConns :
                          workers[w].held =
                              {Fd("chanfd", c), Fd("appfd", w)}
                                  \cup (IF has_control
                                        THEN {Fd("linksocks1", w)} ELSE {})
                   /\ Fd("appfd", w) \notin fds.open
                   /\ Fd("linksocks1", w) \notin fds.open
        /\ \A i \in 1..Len(chans) :
               chans[i].handed = "loop" => ~chans[i].open

\* the second worker was forked while the table held the first worker's
\* link fd, after a migration had sent the first worker a replacement fd
C25_Witness ==
    /\ mode = "multi" /\ has_control /\ pc = "top"
    /\ Len(workers) = 2 /\ Len(connmap) = 2
    /\ workers[1].st = "run" /\ workers[2].st = "run"
    /\ workers[1].ep # workers[2].ep
    /\ Fd("linkfd", 1) \in fds.open /\ Fd("linkfd", 2) \in fds.open

\* the channels a connection accepted in this iteration opened
Accepted(ch) ==
    {i \in 1..Len(ch) : ch[i].by = "handle_new_server_connection"}

\* C26 as stated: a migration that succeeds adopts the new endpoint and
\* unlinks the old socket path when it differs from the new one.
C26_OldPathUnlinked ==
    [][ (mode = "multi" /\ ctl_last = "none" /\ ctl_last' = "ok") =>
            LET new_sockaddr == read_sockaddr(fifo, "ok").sun_path
            IN  /\ current_sockaddr' = new_sockaddr
                /\ current_sockaddr # new_sockaddr =>
                       current_sockaddr \in unlinked'
      ]_vars

\* C26: a connection accepted in multi mode opens its channel to the
\* endpoint that is current when it is accepted, which after a migration
\* that succeeded is the new one, also for a connection accepted in the
\* same wakeup.  update_connections with an empty table opens no channel
\* and succeeds; on success the new endpoint is adopted, and the old socket
\* path is unlinked if unlink_at_end is set and the paths differ; without
\* unlink_at_end no path is unlinked.
C26_NewEndpointAdopted ==
    [][ /\ mode = "multi" =>
               \A i \in Accepted(chans') : chans'[i].ep = current_sockaddr'
        /\ (mode = "multi" /\ ctl_last = "none" /\ ctl_last' = "ok") =>
               LET new_sockaddr == read_sockaddr(fifo, "ok").sun_path
               IN  /\ current_sockaddr' = new_sockaddr
                   /\ (unlink_at_end /\ current_sockaddr # new_sockaddr) =>
                          current_sockaddr \in unlinked'
                   /\ (pc' = "top" /\ current_sockaddr = new_sockaddr) =>
                          unlinked' = unlinked
                   /\ ~unlink_at_end => unlinked' = unlinked
                   /\ connmap = <<>> => Sent(chans') = {}
                   /\ Cardinality({i \in 1..Len(chans') :
                          chans'[i].by = "update_connections"})
                        = Len(connmap)
      ]_vars

\* a path was read while the table was empty and adopted, the old path was
\* unlinked, and the connection accepted in the same wakeup went to the new
\* endpoint
C26_Witness ==
    /\ mode = "multi" /\ ctl_last = "ok" /\ pc = "top"
    /\ unlink_at_end /\ PathB \in unlinked
    /\ current_sockaddr = PathA
    /\ Len(workers) = 1 /\ workers[1].st = "run" /\ workers[1].ep = PathA
    /\ Accepted(chans) = {1}

====
